---- MODULE Spec2Model ----
(***************************************************************************)
(* Model of Deepseek_Chat.py: the response validation / retry engine of   *)
(* ChatWorker (validate_response, enhance_prompt, get_valid_response,     *)
(* run), its splitter extract_content_and_thoughts, and the session store  *)
(* ChatManager.                                                            *)
(*                                                                         *)
(* A reply text is a sequence of symbols.  A symbol is one character       *)
(* ("x" stands for any non-whitespace character, " " for whitespace) or    *)
(* one markup tag.  Tags other than think are represented by <a>.          *)
(***************************************************************************)
EXTENDS Integers, Sequences, FiniteSets, TLC

VARIABLES
    prompt,           \* ChatWorker.prompt
    message_history,  \* ChatWorker.message_history
    messages,         \* get_valid_response: local list `messages`
    attempt,          \* get_valid_response: loop variable `attempt`
    pc,               \* position of the worker thread
    content,          \* get_valid_response: the reply of the current attempt
    outcome,          \* what the last completed attempt did
    calls,            \* number of ollama.chat calls issued by this run
    accepted,         \* number of replies validate_response accepted
    lastSent,         \* the message list handed to the last ollama.chat call
    prevSent,         \* the message list handed to the call before that
    result,           \* value returned by get_valid_response
    exc,              \* str(e) of the exception last caught in the loop
    err,              \* message of the exception raised by get_valid_response
    signals,          \* signals emitted by run(), in order
    vIn,              \* validate_response: argument `content`
    vOut,             \* validate_response: returned value
    eIn,              \* enhance_prompt: argument `failed_attempts`
    eOut,             \* enhance_prompt: returned value
    xIn,              \* extract_content_and_thoughts: argument `content`
    xOut,             \* extract_content_and_thoughts: returned pair
    chats_metadata,   \* ChatManager.chats_metadata (and chats_metadata.json)
    chat_files,       \* the files chats/<chat_id>.json
    active_chat_id,   \* ChatManager.active_chat_id
    clock,            \* the last value read from datetime.now()
    uuids,            \* number of ids drawn from uuid.uuid4()
    op,               \* the last ChatManager call and how it ended
    appended,         \* per chat, the (role, content) pairs saved so far
    mw_history,       \* MainWindow.message_history
    aliased,          \* ChatWorker.message_history is MainWindow's list object
    send_enabled,     \* send_button.isEnabled()
    chat_buttons,     \* keys of ChatHistoryPanel.chat_buttons
    handled,          \* number of worker signals the window has handled
    sends,            \* number of messages submitted
    exchange,         \* where the user message of the last exchange went,
                      \* and the history the window held before it
    slot_error        \* the exception a slot of the window did not catch

workerVars == <<prompt, message_history, messages, attempt, pc, content,
                outcome, calls, accepted, lastSent, prevSent, result, exc,
                err, signals>>
validateVars == <<vIn, vOut>>
enhanceVars == <<eIn, eOut>>
extractVars == <<xIn, xOut>>
storeVars == <<chats_metadata, chat_files, active_chat_id, clock, uuids, op,
               appended>>
\* the variables neither the worker thread nor validate_response touches
windowVars == <<mw_history, aliased, send_enabled, chat_buttons, handled,
                sends, exchange, slot_error>>
restVars == <<eIn, eOut, xIn, xOut, storeVars, windowVars>>
vars == <<prompt, message_history, messages, attempt, pc, content, outcome,
          calls, accepted, lastSent, prevSent, result, exc, err, signals,
          vIn, vOut, restVars>>

(***************************************************************************)
(* Bounds of the model.                                                    *)
(***************************************************************************)
MaxHist == 11      \* longest message history handed to the worker
MaxPieces == 4     \* longest reply, in pieces, given to validate_response

(***************************************************************************)
(* Text helpers.                                                           *)
(***************************************************************************)
NoneValue == "None"

Chars(n) == [i \in 1..n |-> "x"]

IsSpace(c) == c = " "

IsChar(c) == c \in {"x", " "}

IsOpen(c) == c \in {"<root>", "<think>", "<a>"}

IsClose(c) == c \in {"</root>", "</think>", "</a>"}

TagName(c) ==
    IF c \in {"<think>", "</think>"} THEN "think"
    ELSE IF c \in {"<a>", "</a>"} THEN "a"
    ELSE "root"

\* the single element of a one-element set; {e(x) : x \in {v}} evaluates v
\* once and names it x
Only(S) == CHOOSE y \in S : TRUE

Min(S) == CHOOSE m \in S : \A n \in S : m <= n

Max(S) == CHOOSE m \in S : \A n \in S : m >= n

\* str.strip(): the text from its first to its last non-whitespace character
strip(s) ==
    LET P == {i \in 1..Len(s) : ~IsSpace(s[i])}
    IN  IF P = {} THEN <<>> ELSE SubSeq(s, Min(P), Max(P))

RECURSIVE SortedSeq(_)
SortedSeq(S) ==
    IF S = {} THEN <<>> ELSE <<Min(S)>> \o SortedSeq(S \ {Min(S)})

(***************************************************************************)
(* ET.fromstring: a well-formedness scan that also records, for every      *)
(* element (named by the position of its start tag), its parent element.   *)
(* The document element is at position 1 and has parent 0.                 *)
(***************************************************************************)
RECURSIVE ParseFrom(_, _, _, _)
ParseFrom(s, i, stack, par) ==
    IF i > Len(s) THEN [ok |-> stack = <<>>, parent |-> par, doc |-> s]
    ELSE IF i > 1 /\ stack = <<>>
    THEN [ok |-> FALSE, parent |-> par, doc |-> s]
    ELSE IF IsOpen(s[i])
    THEN ParseFrom(s, i + 1, Append(stack, i),
                   par @@ (i :> IF stack = <<>> THEN 0 ELSE stack[Len(stack)]))
    ELSE IF IsClose(s[i])
    THEN IF TagName(s[stack[Len(stack)]]) # TagName(s[i])
         THEN [ok |-> FALSE, parent |-> par, doc |-> s]
         ELSE ParseFrom(s, i + 1, SubSeq(stack, 1, Len(stack) - 1), par)
    ELSE IF stack = <<>>
    THEN [ok |-> FALSE, parent |-> par, doc |-> s]
    ELSE ParseFrom(s, i + 1, stack, par)

fromstring(xml_content) == ParseFrom(xml_content, 1, <<>>, <<>>)

Elements(tree) == DOMAIN tree.parent

Tag(tree, e) == TagName(tree.doc[e])

\* list(elem): the child elements in document order
Children(tree, e) == SortedSeq({c \in Elements(tree) : tree.parent[c] = e})

\* the run of characters of s that starts at position i
TextFrom(s, i) ==
    LET stops == {j \in i..Len(s) : ~IsChar(s[j])}
    IN  SubSeq(s, i, IF stops = {} THEN Len(s) ELSE Min(stops) - 1)

\* elem.text: the characters between the start tag and the next tag
ElemText(tree, e) == TextFrom(tree.doc, e + 1)

\* the characters between the end tag of e and the next tag (elem.tail)
RECURSIVE EndOf(_, _, _)
EndOf(s, i, depth) ==
    IF IsOpen(s[i]) THEN EndOf(s, i + 1, depth + 1)
    ELSE IF IsClose(s[i])
    THEN IF depth = 1 THEN i ELSE EndOf(s, i + 1, depth - 1)
    ELSE EndOf(s, i + 1, depth)

ElemTail(tree, e) == TextFrom(tree.doc, EndOf(tree.doc, e, 0) + 1)

(***************************************************************************)
(* ChatWorker.validate_response.  The returned value is "True" or "False"; *)
(* "ValueError" stands for the exception list.index raises, which the      *)
(* function does not catch.  The absent input None is <<NoneValue>>.       *)
(***************************************************************************)
MinThoughtLen == 10

NoElement == 0

RootElement == 1

IsNone(content0) == content0 = <<NoneValue>>

\* tree.findall('.//think')
think_elements(tree) ==
    SortedSeq({e \in Elements(tree) \ {RootElement} : Tag(tree, e) = "think"})

\* mutation: the first think element is taken instead of the last
last_think_first(tree) == think_elements(tree)[1]

\* think_elements[-1]
last_think(tree) == think_elements(tree)[Len(think_elements(tree))]

\* the loop over tree.iter() that keeps the last element tagged think
last_element(tree) ==
    LET T == {e \in Elements(tree) : Tag(tree, e) = "think"}
    IN  IF T = {} THEN NoElement ELSE Max(T)

\* tree.find('.//*[think]'): the first descendant of the root, in document
\* order, that has a think child
find_parent(tree) ==
    LET P == {p \in Elements(tree) \ {RootElement} :
                \E c \in Elements(tree) :
                    tree.parent[c] = p /\ Tag(tree, c) = "think"}
    IN  IF P = {} THEN NoElement ELSE Min(P)

\* the text requirement on the last think element
HasMeaningfulText(tree) ==
    /\ ElemText(tree, last_think(tree)) # <<>>
    /\ Len(strip(ElemText(tree, last_think(tree)))) >= MinThoughtLen

\* list.index, 0-based; -1 stands for ValueError
IndexOf(seq, x) ==
    IF \E i \in 1..Len(seq) : seq[i] = x
    THEN Min({i \in 1..Len(seq) : seq[i] = x}) - 1
    ELSE -1

\* the position check on the last think element
PositionCheck(tree) ==
    LET le == last_element(tree)
        parent == find_parent(tree)
    IN  IF le # NoElement /\ parent # NoElement
        THEN LET think_index == IndexOf(Children(tree, parent), le)
             IN  IF think_index = -1 THEN "ValueError"
                 ELSE IF think_index < Len(Children(tree, parent)) - 1
                 THEN "False"
                 ELSE "True"
        ELSE "True"

\* mutation: the ParseError is not caught
validate_response_uncaught(content0) ==
    IF IsNone(content0) \/ content0 = <<>> THEN "False"
    ELSE Only({ IF ~tree.ok THEN "ParseError"
                ELSE IF think_elements(tree) = <<>> THEN "False"
                ELSE IF ~HasMeaningfulText(tree) THEN "False"
                ELSE PositionCheck(tree)
                : tree \in {fromstring(<<"<root>">> \o content0
                                           \o <<"</root>">>)} })

validate_response(content0) ==
    IF IsNone(content0) \/ content0 = <<>> THEN "False"
    ELSE Only({ IF ~tree.ok THEN "False"
                ELSE IF think_elements(tree) = <<>> THEN "False"
                ELSE IF ~HasMeaningfulText(tree) THEN "False"
                ELSE PositionCheck(tree)
                : tree \in {fromstring(<<"<root>">> \o content0
                                           \o <<"</root>">>)} })

(***************************************************************************)
(* ChatWorker.enhance_prompt.                                              *)
(***************************************************************************)
enhanced_prompts ==
    << "IMPORTANT: Your response MUST end with <think></think>",
       "CRITICAL: You MUST include meaningful thoughts in <think></think> tags at the END of your response",
       "FINAL REMINDER: Response format must be: [Your answer] followed by <think>your thoughts</think>",
       "STRICT REQUIREMENT: End your response with detailed thoughts in <think></think> tags",
       "MANDATORY: Include substantial thoughts (>10 words) in <think></think> tags at the end" >>

\* variant: cycles through the list instead of staying on the last entry
enhance_prompt_cycling(failed_attempts) ==
    enhanced_prompts[(failed_attempts % Len(enhanced_prompts)) + 1]

enhance_prompt(failed_attempts) ==
    enhanced_prompts[Min({failed_attempts, Len(enhanced_prompts) - 1}) + 1]

(***************************************************************************)
(* ChatWorker.extract_content_and_thoughts.                                *)
(***************************************************************************)
\* str.split(marker): the pieces of s between the occurrences of marker
split(s, marker) ==
    LET at == SortedSeq({i \in 1..Len(s) : s[i] = marker})
        from(j) == IF j = 1 THEN 1 ELSE at[j - 1] + 1
        to(j) == IF j = Len(at) + 1 THEN Len(s) ELSE at[j] - 1
    IN  [j \in 1..(Len(at) + 1) |-> SubSeq(s, from(j), to(j))]

\* variant: the text after the closing marker is not appended to the answer
extract_without_after(content0) ==
    Only({ IF Len(parts) > 1
           THEN <<strip(parts[1]), strip(split(parts[2], "</think>")[1])>>
           ELSE <<strip(parts[1]), <<>> >>
           : parts \in {split(content0, "<think>")} })

extract_content_and_thoughts(content0) ==
    Only({ IF Len(parts) > 1
           THEN Only({ IF Len(think_parts) > 1
                       THEN <<strip(strip(parts[1]) \o <<" ">>
                                      \o strip(think_parts[2])),
                              strip(think_parts[1])>>
                       ELSE <<strip(parts[1]), strip(think_parts[1])>>
                       : think_parts \in {split(parts[2], "</think>")} })
           ELSE <<strip(parts[1]), <<>> >>
           : parts \in {split(content0, "<think>")} })

(***************************************************************************)
(* ChatManager.  The catalog chats_metadata is a dict in insertion order:  *)
(* a sequence of entries, each carrying its key in the field id.  The      *)
(* record files are a function from the ids that have a file to the list   *)
(* stored under "messages".  A store value s packs the three parts; every  *)
(* method is an operator from the store before the call to the store       *)
(* after it, the returned value and the message of the raised exception    *)
(* (NoneValue when the call returns).                                      *)
(***************************************************************************)
MaxChats == 2      \* number of ids uuid4 hands out
MaxMsgs == 2       \* most messages the record files hold
MaxClock == 1      \* latest reading of the clock

\* g with key k set to v / without key k
Put(g, k, v) == [i \in (DOMAIN g) \cup {k} |-> IF i = k THEN v ELSE g[i]]

Drop(g, k) == [i \in (DOMAIN g) \ {k} |-> g[i]]

StoreOf(m, f, a) ==
    [chats_metadata |-> m, chat_files |-> f, active_chat_id |-> a]

\* the keys of the catalog and the position of a key
MetaIds(m) == {m[i].id : i \in 1..Len(m)}

MetaIndex(m, chat_id) == CHOOSE i \in 1..Len(m) : m[i].id = chat_id

\* del m[chat_id]
MetaDel(m, chat_id) ==
    [i \in 1..(Len(m) - 1) |->
        IF i < MetaIndex(m, chat_id) THEN m[i] ELSE m[i + 1]]

\* the n-th id uuid.uuid4() hands out
uuid4(n) == "chat" \o ToString(n)

Returns(s, v) == [store |-> s, returned |-> v, raised |-> NoneValue]

Raises(s, e) == [store |-> s, returned |-> NoneValue, raised |-> e]

NotFound == "Chat not found"

NoActiveChat == "No active chat"

KeyError == "KeyError"

\* variant: the title is numbered after the entry has been inserted
create_new_chat_numbered_after(s, chat_id, timestamp) ==
    LET title == "Chat " \o ToString(Len(s.chats_metadata) + 2)
        entry == [id |-> chat_id, created_at |-> timestamp,
                  updated_at |-> timestamp, title |-> title,
                  messages |-> <<>>]
    IN  Returns(StoreOf(Append(s.chats_metadata, entry),
                        Put(s.chat_files, chat_id, <<>>),
                        chat_id),
                <<chat_id, title>>)

create_new_chat(s, chat_id, timestamp) ==
    LET title == "Chat " \o ToString(Len(s.chats_metadata) + 1)
        entry == [id |-> chat_id, created_at |-> timestamp,
                  updated_at |-> timestamp, title |-> title,
                  messages |-> <<>>]
    IN  Returns(StoreOf(Append(s.chats_metadata, entry),
                        Put(s.chat_files, chat_id, <<>>),
                        chat_id),
                <<chat_id, title>>)

\* variant: the chat is made active before its record is opened
load_chat_activating_first(s, chat_id) ==
    IF chat_id \in DOMAIN s.chat_files
    THEN Returns(StoreOf(s.chats_metadata, s.chat_files, chat_id),
                 s.chat_files[chat_id])
    ELSE Raises(StoreOf(s.chats_metadata, s.chat_files, chat_id), NotFound)

load_chat(s, chat_id) ==
    IF chat_id \in DOMAIN s.chat_files
    THEN Returns(StoreOf(s.chats_metadata, s.chat_files, chat_id),
                 s.chat_files[chat_id])
    ELSE Raises(s, NotFound)

\* variant: the record is written without reading the existing one
save_message_overwriting(s, role, content0, timestamp) ==
    IF s.active_chat_id = NoneValue THEN Raises(s, NoActiveChat)
    ELSE LET a == s.active_chat_id
             message == [role |-> role, content |-> content0,
                         timestamp |-> timestamp]
             m == s.chats_metadata
             i == MetaIndex(m, a)
         IN  Returns(StoreOf([m EXCEPT ![i].updated_at = timestamp,
                                       ![i].messages = <<message>>],
                             Put(s.chat_files, a, <<message>>), a),
                     NoneValue)

\* variant: the catalog copy of the message list is not updated
save_message_record_only(s, role, content0, timestamp) ==
    IF s.active_chat_id = NoneValue THEN Raises(s, NoActiveChat)
    ELSE LET a == s.active_chat_id
             message == [role |-> role, content |-> content0,
                         timestamp |-> timestamp]
             old == IF a \in DOMAIN s.chat_files THEN s.chat_files[a]
                    ELSE <<>>
         IN  Returns(StoreOf(s.chats_metadata,
                             Put(s.chat_files, a, Append(old, message)),
                             a),
                     NoneValue)

save_message(s, role, content0, timestamp) ==
    IF s.active_chat_id = NoneValue THEN Raises(s, NoActiveChat)
    ELSE LET a == s.active_chat_id
             message == [role |-> role, content |-> content0,
                         timestamp |-> timestamp]
             old == IF a \in DOMAIN s.chat_files THEN s.chat_files[a]
                    ELSE <<>>
             files == Put(s.chat_files, a, Append(old, message))
             m == s.chats_metadata
         IN  IF a \notin MetaIds(m)
             THEN Raises(StoreOf(m, files, a), KeyError)
             ELSE LET i == MetaIndex(m, a)
                  IN  Returns(StoreOf([m EXCEPT
                                          ![i].updated_at = timestamp,
                                          ![i].messages = Append(@, message)],
                                      files, a),
                              NoneValue)

get_chat_list(s) ==
    Returns(s, [i \in 1..Len(s.chats_metadata) |->
                   <<s.chats_metadata[i].id, s.chats_metadata[i].title,
                     s.chats_metadata[i].updated_at>>])

\* variant: the title is changed without touching updated_at
update_chat_title_keeping_time(s, chat_id, new_title, timestamp) ==
    IF chat_id \notin MetaIds(s.chats_metadata) THEN Raises(s, NotFound)
    ELSE LET i == MetaIndex(s.chats_metadata, chat_id)
         IN  Returns(StoreOf([s.chats_metadata EXCEPT ![i].title = new_title],
                             s.chat_files, s.active_chat_id),
                     NoneValue)

update_chat_title(s, chat_id, new_title, timestamp) ==
    IF chat_id \notin MetaIds(s.chats_metadata) THEN Raises(s, NotFound)
    ELSE LET i == MetaIndex(s.chats_metadata, chat_id)
         IN  Returns(StoreOf([s.chats_metadata EXCEPT
                                 ![i].title = new_title,
                                 ![i].updated_at = timestamp],
                             s.chat_files, s.active_chat_id),
                     NoneValue)

\* variant: the active pointer is cleared whichever chat is deleted
delete_chat_clearing(s, chat_id) ==
    IF chat_id \notin MetaIds(s.chats_metadata) THEN Raises(s, NotFound)
    ELSE Returns(StoreOf(MetaDel(s.chats_metadata, chat_id),
                         Drop(s.chat_files, chat_id),
                         NoneValue),
                 NoneValue)

\* variant: a record file that is already missing is an error
delete_chat_strict(s, chat_id) ==
    IF chat_id \notin MetaIds(s.chats_metadata) THEN Raises(s, NotFound)
    ELSE IF chat_id \notin DOMAIN s.chat_files
    THEN Raises(s, "FileNotFoundError")
    ELSE Returns(StoreOf(MetaDel(s.chats_metadata, chat_id),
                         Drop(s.chat_files, chat_id),
                         IF s.active_chat_id = chat_id THEN NoneValue
                         ELSE s.active_chat_id),
                 NoneValue)

delete_chat(s, chat_id) ==
    IF chat_id \notin MetaIds(s.chats_metadata) THEN Raises(s, NotFound)
    ELSE Returns(StoreOf(MetaDel(s.chats_metadata, chat_id),
                         Drop(s.chat_files, chat_id),
                         IF s.active_chat_id = chat_id THEN NoneValue
                         ELSE s.active_chat_id),
                 NoneValue)

\* an empty storage root, and ChatManager() on it
EmptyStore == StoreOf(<<>>, <<>>, NoneValue)

\* the store is not in use
StoreIdle ==
    /\ chats_metadata = <<>>
    /\ chat_files = <<>>
    /\ active_chat_id = NoneValue
    /\ clock = 0
    /\ uuids = 0
    /\ op = [name |-> "none"]
    /\ appended = <<>>

\* no window has been built
WindowIdle ==
    /\ mw_history = <<>>
    /\ aliased = FALSE
    /\ send_enabled = TRUE
    /\ chat_buttons = {}
    /\ handled = 0
    /\ sends = 0
    /\ exchange = [chat |-> NoneValue, index |-> 0, history |-> <<>>]
    /\ slot_error = NoneValue

(***************************************************************************)
(* The worker thread: ChatWorker.run and get_valid_response.               *)
(***************************************************************************)
max_retries == 10

system_prompt == "You are a helpful AI assistant."

Prompts == {"prompt"}

\* message histories the caller may hand over with set_prompt
History(n) ==
    [i \in 1..n |-> [role |-> IF i % 2 = 1 THEN "user" ELSE "assistant",
                     content |-> "h" \o ToString(i)]]

\* the empty history and the lengths around the truncation window
HistoryLengths == {0} \cup {n \in 0..MaxHist : n >= MaxHist - 2}

Histories == {History(n) : n \in HistoryLengths}

\* replies of the backend, as reply texts
ReplyValid1 ==
    Chars(2) \o <<" ", "<think>">> \o Chars(6) \o <<" ">> \o Chars(4)
        \o <<"</think>">>

ReplyValid2 == <<"<think>">> \o Chars(10) \o <<"</think>">>

ReplyNoBlocks == Chars(2) \o <<" ">> \o Chars(6) \o <<" ">> \o Chars(4)

ReplyTiny == <<"<think>">> \o Chars(4) \o <<"</think>">>

ReplyOtherParent ==
    <<"<a>", "<think>", "x", "</think>", "</a>", "<think>">> \o Chars(10)
        \o <<"</think>">>

Replies == {ReplyValid1, ReplyValid2, ReplyNoBlocks, ReplyTiny,
            ReplyOtherParent}

\* str(e) of the exceptions ollama.chat may raise
TransportErrors == {"connection refused"}

ValueErrorText == "x not in list"

\* messages[-10:] if len(messages) > 10 else messages
HistoryWindow == 10

\* mutation: the history is not truncated
Truncated_all(history) == history

Truncated(history) ==
    IF Len(history) > HistoryWindow
    THEN SubSeq(history, Len(history) - HistoryWindow + 1, Len(history))
    ELSE history

\* the message list built before the loop
BuildMessages(history, p) ==
    <<[role |-> "system", content |-> system_prompt]>>
        \o Truncated(history)
        \o <<[role |-> "user", content |-> p]>>

\* mutation: the original prompt is not re-appended after the reminder
Escalated_no_prompt(msgs, att, p) ==
    Append(msgs, [role |-> "system", content |-> enhance_prompt(att)])

\* the two appends after a rejected reply
Escalated(msgs, att, p) ==
    Append(Append(msgs, [role |-> "system", content |-> enhance_prompt(att)]),
           [role |-> "user", content |-> p])

\* f"Failed to get valid response after {self.max_retries} attempts: {str(e)}"
WrappedError(e) ==
    <<"Failed to get valid response after ", ToString(max_retries),
      " attempts: ", e>>

ExhaustedError == <<"Failed to get valid response with proper think tags">>

\* mutation: a caught exception is handled like a rejected reply
ExceptClause_escalating(e) ==
    /\ exc' = e
    /\ messages' = Escalated(messages, attempt, prompt)
    /\ IF attempt = max_retries - 1
       THEN /\ pc' = "raised"
            /\ err' = WrappedError(e)
            /\ attempt' = attempt
       ELSE /\ pc' = "call"
            /\ err' = err
            /\ attempt' = attempt + 1
    /\ UNCHANGED <<result, accepted>>

\* mutation: the last attempt is recognised one iteration too late
ExceptClause_off_by_one(e) ==
    /\ exc' = e
    /\ messages' = messages
    /\ IF attempt = max_retries
       THEN /\ pc' = "raised"
            /\ err' = WrappedError(e)
            /\ attempt' = attempt
       ELSE /\ pc' = "call"
            /\ err' = err
            /\ attempt' = attempt + 1
    /\ UNCHANGED <<result, accepted>>

\* the except clause of the loop body
ExceptClause(e) ==
    /\ exc' = e
    /\ messages' = messages
    /\ IF attempt = max_retries - 1
       THEN /\ pc' = "raised"
            /\ err' = WrappedError(e)
            /\ attempt' = attempt
       ELSE /\ pc' = "call"
            /\ err' = err
            /\ attempt' = attempt + 1
    /\ UNCHANGED <<result, accepted>>

\* the rest of the loop body after validate_response returned False
RejectClause ==
    /\ messages' = Escalated(messages, attempt, prompt)
    /\ IF attempt = max_retries - 1
       THEN /\ pc' = "raised"
            /\ err' = ExhaustedError
            /\ attempt' = attempt
       ELSE /\ pc' = "call"
            /\ err' = err
            /\ attempt' = attempt + 1
    /\ UNCHANGED <<result, accepted, exc>>

\* mutation: the accepted reply is not returned and the loop goes on
AcceptClause_no_return(r) ==
    /\ result' = r
    /\ accepted' = accepted + 1
    /\ IF attempt = max_retries - 1
       THEN /\ pc' = "returned"
            /\ attempt' = attempt
       ELSE /\ pc' = "call"
            /\ attempt' = attempt + 1
    /\ UNCHANGED <<messages, exc, err>>

\* return content
AcceptClause(r) ==
    /\ result' = r
    /\ accepted' = accepted + 1
    /\ pc' = "returned"
    /\ UNCHANGED <<messages, attempt, exc, err>>

\* run() enters get_valid_response and builds the message list
Start ==
    /\ pc = "start"
    /\ messages' = BuildMessages(message_history, prompt)
    /\ attempt' = 0
    /\ pc' = "call"
    /\ UNCHANGED <<prompt, message_history, content, outcome, calls, accepted,
                   lastSent, prevSent, result, exc, err, signals, vIn, vOut,
                   restVars>>

\* one attempt in which ollama.chat returns the reply r
ChatReply(r) ==
    /\ pc = "call"
    /\ calls' = calls + 1
    /\ prevSent' = lastSent
    /\ lastSent' = messages
    /\ content' = r
    /\ \E v \in {validate_response(r)} :
           /\ outcome' = (IF v = "True" THEN "valid"
                          ELSE IF v = "False" THEN "invalid"
                          ELSE "valerror")
           /\ IF v = "True" THEN AcceptClause(r)
              ELSE IF v = "False" THEN RejectClause
              ELSE ExceptClause(ValueErrorText)
    /\ UNCHANGED <<prompt, message_history, signals, vIn, vOut, restVars>>

\* one attempt in which ollama.chat raises e
ChatError(e) ==
    /\ pc = "call"
    /\ calls' = calls + 1
    /\ prevSent' = lastSent
    /\ lastSent' = messages
    /\ outcome' = "transport"
    /\ ExceptClause(e)
    /\ UNCHANGED <<prompt, message_history, content, signals, vIn, vOut,
                   restVars>>

\* run(): get_valid_response returned; split the reply and emit finished
EmitFinished ==
    /\ pc = "returned"
    /\ signals' = Append(signals,
                         [name |-> "finished",
                          args |-> extract_content_and_thoughts(result)])
    /\ pc' = "done"
    /\ UNCHANGED <<prompt, message_history, messages, attempt, content,
                   outcome, calls, accepted, lastSent, prevSent, result, exc,
                   err, vIn, vOut, restVars>>

\* run(): get_valid_response raised; emit error
EmitError ==
    /\ pc = "raised"
    /\ signals' = Append(signals, [name |-> "error", args |-> err])
    /\ pc' = "done"
    /\ UNCHANGED <<prompt, message_history, messages, attempt, content,
                   outcome, calls, accepted, lastSent, prevSent, result, exc,
                   err, vIn, vOut, restVars>>

\* enhance_prompt is not being evaluated
EnhanceIdle == eIn = 0 /\ eOut = NoneValue

\* extract_content_and_thoughts is not being evaluated
ExtractIdle == xIn = <<>> /\ xOut = NoneValue

Init ==
    /\ prompt \in Prompts
    /\ message_history \in Histories
    /\ messages = <<>>
    /\ attempt = 0
    /\ pc = "start"
    /\ content = <<>>
    /\ outcome = NoneValue
    /\ calls = 0
    /\ accepted = 0
    /\ lastSent = <<>>
    /\ prevSent = <<>>
    /\ result = <<>>
    /\ exc = NoneValue
    /\ err = <<>>
    /\ signals = <<>>
    /\ vIn = <<>>
    /\ vOut = NoneValue
    /\ EnhanceIdle
    /\ ExtractIdle
    /\ StoreIdle
    /\ WindowIdle

Next ==
    \/ Start
    \/ \E r \in Replies : ChatReply(r)
    \/ \E e \in TransportErrors : ChatError(e)
    \/ EmitFinished
    \/ EmitError

Spec == Init /\ [][Next]_vars

\* one attempt: the backend call raises or returns
Attempt ==
    \/ \E e \in TransportErrors : ChatError(e)
    \/ \E r \in Replies : ChatReply(r)

\* the thread keeps running and every backend call returns or raises
FairSpec ==
    /\ Spec
    /\ WF_vars(Start)
    /\ WF_vars(Attempt)
    /\ WF_vars(EmitFinished)
    /\ WF_vars(EmitError)

(***************************************************************************)
(* validate_response as a function of its input.                           *)
(***************************************************************************)
Pieces == {"TO", "TC", "AO", "AC", "AE", "TL", "X9", "X1", "SP"}

Expand(piece) ==
    CASE piece = "TO" -> <<"<think>">>
      [] piece = "TC" -> <<"</think>">>
      [] piece = "AO" -> <<"<a>">>
      [] piece = "AC" -> <<"</a>">>
      [] piece = "AE" -> <<"<a>", "</a>">>
      [] piece = "TL" -> <<"<think>">> \o Chars(MinThoughtLen) \o <<"</think>">>
      [] piece = "X9" -> Chars(MinThoughtLen - 1)
      [] piece = "X1" -> Chars(1)
      [] piece = "SP" -> <<" ">>

RECURSIVE Flatten(_)
Flatten(ps) ==
    IF ps = <<>> THEN <<>> ELSE Expand(Head(ps)) \o Flatten(Tail(ps))

\* "answer <think>sufficiently long reasoning text</think>"
ExampleAnswer ==
    Chars(6) \o <<" ", "<think>">> \o Chars(12) \o <<" ">> \o Chars(4)
        \o <<" ">> \o Chars(9) \o <<" ">> \o Chars(4) \o <<"</think>">>

\* "<think>short</think> trailing"
ExampleShortTrailing ==
    <<"<think>">> \o Chars(5) \o <<"</think>", " ">> \o Chars(8)

Examples == {ExampleAnswer, ExampleShortTrailing, ReplyNoBlocks, ReplyTiny}

Inputs ==
    {Flatten(ps) : ps \in UNION {[1..n -> Pieces] : n \in 0..MaxPieces}}
        \cup Examples \cup {<<NoneValue>>}

\* no worker thread has been started
WorkerIdle ==
    /\ prompt = "prompt"
    /\ message_history = <<>>
    /\ messages = <<>>
    /\ attempt = 0
    /\ pc = "idle"
    /\ content = <<>>
    /\ outcome = NoneValue
    /\ calls = 0
    /\ accepted = 0
    /\ lastSent = <<>>
    /\ prevSent = <<>>
    /\ result = <<>>
    /\ exc = NoneValue
    /\ err = <<>>
    /\ signals = <<>>

\* validate_response is not being evaluated
ValidateIdle == vIn = <<>> /\ vOut = NoneValue

InitValidate ==
    /\ vIn \in Inputs
    /\ vOut = NoneValue
    /\ WorkerIdle
    /\ EnhanceIdle
    /\ ExtractIdle
    /\ StoreIdle
    /\ WindowIdle

Validate ==
    /\ vOut = NoneValue
    /\ vOut' = validate_response(vIn)
    /\ UNCHANGED <<vIn, prompt, message_history, messages, attempt, pc,
                   content, outcome, calls, accepted, lastSent, prevSent,
                   result, exc, err, signals, restVars>>

NextValidate == Validate

SpecValidate == InitValidate /\ [][NextValidate]_vars

(***************************************************************************)
(* enhance_prompt as a function of the attempt index.                      *)
(***************************************************************************)
MaxAttemptIndex == 60   \* largest attempt index given to enhance_prompt

InitEnhance ==
    /\ eIn \in 0..MaxAttemptIndex
    /\ eOut = NoneValue
    /\ WorkerIdle
    /\ ValidateIdle
    /\ ExtractIdle
    /\ StoreIdle
    /\ WindowIdle

Enhance ==
    /\ eOut = NoneValue
    /\ eOut' = enhance_prompt(eIn)
    /\ UNCHANGED <<eIn, workerVars, validateVars, extractVars, storeVars,
                   windowVars>>

NextEnhance == Enhance

SpecEnhance == InitEnhance /\ [][NextEnhance]_vars

(***************************************************************************)
(* extract_content_and_thoughts as a function of the reply text.           *)
(***************************************************************************)
\* "Hello <think>because</think> world"
ExampleHello ==
    Chars(5) \o <<" ", "<think>">> \o Chars(7) \o <<"</think>", " ">>
        \o Chars(5)

\* "plain text"
ExamplePlain == Chars(5) \o <<" ">> \o Chars(4)

ExtractInputs == (Inputs \ {<<NoneValue>>}) \cup {ExampleHello, ExamplePlain}

InitExtract ==
    /\ xIn \in ExtractInputs
    /\ xOut = NoneValue
    /\ WorkerIdle
    /\ ValidateIdle
    /\ EnhanceIdle
    /\ StoreIdle
    /\ WindowIdle

Extract ==
    /\ xOut = NoneValue
    /\ xOut' = extract_content_and_thoughts(xIn)
    /\ UNCHANGED <<xIn, workerVars, validateVars, enhanceVars, storeVars,
                   windowVars>>

NextExtract == Extract

SpecExtract == InitExtract /\ [][NextExtract]_vars

(***************************************************************************)
(* run(): the reply get_valid_response hands back has been through         *)
(* validate_response and goes through extract_content_and_thoughts.  Both  *)
(* functions are applied to the same reply.                                *)
(***************************************************************************)
InitSplitAccepted ==
    /\ vIn \in ExtractInputs
    /\ xIn = vIn
    /\ vOut = NoneValue
    /\ xOut = NoneValue
    /\ WorkerIdle
    /\ EnhanceIdle
    /\ StoreIdle
    /\ WindowIdle

NextSplitAccepted == Validate \/ Extract

SpecSplitAccepted == InitSplitAccepted /\ [][NextSplitAccepted]_vars

(***************************************************************************)
(* ChatManager as a state machine: one action per method call.             *)
(***************************************************************************)
\* the ids the callers pass: those of the storage root and those uuid4
\* draws
ChatIds ==
    MetaIds(chats_metadata) \cup DOMAIN chat_files
        \cup {uuid4(n) : n \in 1..MaxChats}

Roles == {"user", "assistant"}

Contents == {"hi"}

Titles == {"Renamed"}

TheStore == StoreOf(chats_metadata, chat_files, active_chat_id)

\* datetime.now(): the clock has advanced since the last reading, or not
Nows == {t \in {clock, clock + 1} : t <= MaxClock}

\* SeqSum(f, S): the sum of f[i] over i in S
RECURSIVE SeqSum(_, _)
SeqSum(f, S) ==
    IF S = {} THEN 0
    ELSE LET i == CHOOSE j \in S : TRUE IN f[i] + SeqSum(f, S \ {i})

\* the number of messages in the record files
Saved == SeqSum([i \in DOMAIN chat_files |-> Len(chat_files[i])],
                DOMAIN chat_files)

\* the call `name` with arguments `args` ended as r
Ended(name, args, r) ==
    /\ chats_metadata' = r.store.chats_metadata
    /\ chat_files' = r.store.chat_files
    /\ active_chat_id' = r.store.active_chat_id
    /\ op' = [name |-> name, args |-> args, returned |-> r.returned,
              raised |-> r.raised]

\* ChatManager() on an empty storage root creates the first chat
InitStore ==
    /\ chats_metadata = create_new_chat(EmptyStore, uuid4(1), 0).store.chats_metadata
    /\ chat_files = create_new_chat(EmptyStore, uuid4(1), 0).store.chat_files
    /\ active_chat_id = uuid4(1)
    /\ clock = 0
    /\ uuids = 1
    /\ op = [name |-> "__init__", args |-> <<>>,
             returned |-> NoneValue, raised |-> NoneValue]
    /\ appended = Put(<<>>, uuid4(1), <<>>)
    /\ WindowIdle
    /\ WorkerIdle
    /\ ValidateIdle
    /\ EnhanceIdle
    /\ ExtractIdle

CallCreateNewChat ==
    /\ uuids < MaxChats
    /\ uuids' = uuids + 1
    /\ \E now \in Nows :
           /\ clock' = now
           /\ Ended("create_new_chat", <<>>,
                    create_new_chat(TheStore, uuid4(uuids + 1), now))
    /\ appended' = Put(appended, uuid4(uuids + 1), <<>>)
    /\ UNCHANGED <<workerVars, validateVars, enhanceVars, extractVars,
                   windowVars>>

CallLoadChat(chat_id) ==
    /\ Ended("load_chat", <<chat_id>>, load_chat(TheStore, chat_id))
    /\ UNCHANGED <<clock, uuids, appended>>
    /\ UNCHANGED <<workerVars, validateVars, enhanceVars, extractVars,
                   windowVars>>

\* the callers save a user message first and then the assistant's answer
Turn ==
    IF active_chat_id \in DOMAIN chat_files
          /\ Len(chat_files[active_chat_id]) % 2 = 1
    THEN "assistant" ELSE "user"

CallSaveMessage(role, content0) ==
    /\ Saved < MaxMsgs
    /\ role = Turn
    /\ \E now \in Nows :
           /\ clock' = now
           /\ \E r \in {save_message(TheStore, role, content0, now)} :
                  /\ Ended("save_message", <<role, content0>>, r)
                  /\ appended' =
                         IF r.raised = NoneValue
                         THEN [appended EXCEPT ![active_chat_id] =
                                   Append(@, <<role, content0>>)]
                         ELSE appended
    /\ UNCHANGED uuids
    /\ UNCHANGED <<workerVars, validateVars, enhanceVars, extractVars,
                   windowVars>>

CallGetChatList ==
    /\ Ended("get_chat_list", <<>>, get_chat_list(TheStore))
    /\ UNCHANGED <<clock, uuids, appended>>
    /\ UNCHANGED <<workerVars, validateVars, enhanceVars, extractVars,
                   windowVars>>

CallUpdateChatTitle(chat_id, new_title) ==
    /\ \E now \in Nows :
           /\ clock' = (IF chat_id \in MetaIds(chats_metadata) THEN now
                        ELSE clock)
           /\ Ended("update_chat_title", <<chat_id, new_title>>,
                    update_chat_title(TheStore, chat_id, new_title, now))
    /\ UNCHANGED <<uuids, appended>>
    /\ UNCHANGED <<workerVars, validateVars, enhanceVars, extractVars,
                   windowVars>>

CallDeleteChat(chat_id) ==
    /\ \E r \in {delete_chat(TheStore, chat_id)} :
           /\ Ended("delete_chat", <<chat_id>>, r)
           /\ appended' = (IF r.raised = NoneValue THEN Drop(appended, chat_id)
                           ELSE appended)
    /\ UNCHANGED <<clock, uuids>>
    /\ UNCHANGED <<workerVars, validateVars, enhanceVars, extractVars,
                   windowVars>>

NextStore ==
    \/ CallCreateNewChat
    \/ \E chat_id \in ChatIds : CallLoadChat(chat_id)
    \/ \E role \in Roles : \E content0 \in Contents :
           CallSaveMessage(role, content0)
    \/ CallGetChatList
    \/ \E chat_id \in ChatIds : \E new_title \in Titles :
           CallUpdateChatTitle(chat_id, new_title)
    \/ \E chat_id \in ChatIds : CallDeleteChat(chat_id)

SpecStore == InitStore /\ [][NextStore]_vars

\* a storage root holding a record file without a catalog entry, as
\* create_new_chat leaves it when it is interrupted after writing the
\* record (line 147) and before _save_chats_metadata (line 149)
RootWithOrphanRecord == StoreOf(<<>>, Put(<<>>, uuid4(0), <<>>), NoneValue)

\* ChatManager() on that root: the catalog is empty, the first chat is
\* created
InitStoreOrphan ==
    /\ \E r \in {create_new_chat(RootWithOrphanRecord, uuid4(1), 0)} :
           /\ chats_metadata = r.store.chats_metadata
           /\ chat_files = r.store.chat_files
           /\ active_chat_id = r.store.active_chat_id
    /\ clock = 0
    /\ uuids = 1
    /\ op = [name |-> "__init__", args |-> <<>>,
             returned |-> NoneValue, raised |-> NoneValue]
    /\ appended = Put(Put(<<>>, uuid4(0), <<>>), uuid4(1), <<>>)
    /\ WindowIdle
    /\ WorkerIdle
    /\ ValidateIdle
    /\ EnhanceIdle
    /\ ExtractIdle

SpecStoreOrphan == InitStoreOrphan /\ [][NextStore]_vars

\* a storage root whose catalog lists a chat without messages and whose
\* record file is gone, as delete_chat leaves it when it is interrupted
\* after unlink (line 218) and before _save_chats_metadata (line 224)
RootWithMissingRecord ==
    StoreOf(<< [id |-> uuid4(1), created_at |-> 0, updated_at |-> 0,
                title |-> "Chat 1", messages |-> <<>>] >>,
            <<>>, NoneValue)

\* ChatManager() on that root: the catalog is not empty, no chat is created
\* and none is active
InitStoreStale ==
    /\ chats_metadata = RootWithMissingRecord.chats_metadata
    /\ chat_files = RootWithMissingRecord.chat_files
    /\ active_chat_id = NoneValue
    /\ clock = 0
    /\ uuids = 1
    /\ op = [name |-> "__init__", args |-> <<>>,
             returned |-> NoneValue, raised |-> NoneValue]
    /\ appended = Put(<<>>, uuid4(1), <<>>)
    /\ WindowIdle
    /\ WorkerIdle
    /\ ValidateIdle
    /\ EnhanceIdle
    /\ ExtractIdle

SpecStoreStale == InitStoreStale /\ [][NextStore]_vars

(***************************************************************************)
(* MainWindow and ChatHistoryPanel.  A window value w packs the store, the *)
(* clock and the widgets' state; every handler is an operator from the     *)
(* window before the event to the window after it.  w.raised is the        *)
(* exception the handler let escape (NoneValue when it returned).          *)
(***************************************************************************)
MaxSends == 1      \* number of messages the user submits

\* [{'role': msg['role'], 'content': msg['content']} for msg in messages]
RoleContent(msgs) ==
    [i \in 1..Len(msgs) |-> [role |-> msgs[i].role, content |-> msgs[i].content]]

\* the window made the ChatManager call `name`, which ended as r
Called(w, name, args, r) ==
    LET a == w.store.active_chat_id
        saved == IF r.raised # NoneValue THEN w.appended
                 ELSE IF name = "create_new_chat"
                      THEN Put(w.appended, r.returned[1], <<>>)
                 ELSE IF name = "save_message"
                      THEN Put(w.appended, a,
                               Append(w.appended[a], <<args[1], args[2]>>))
                 ELSE IF name = "delete_chat" THEN Drop(w.appended, args[1])
                 ELSE w.appended
    IN  [w EXCEPT !.store = r.store,
                  !.op = [name |-> name, args |-> args,
                          returned |-> r.returned, raised |-> r.raised],
                  !.appended = saved]

\* list.append on MainWindow.message_history, seen through the worker's
\* reference when it is the same list
HistoryAppend(w, m) ==
    [w EXCEPT !.message_history = Append(@, m),
              !.worker_history = IF w.aliased THEN Append(@, m) ELSE @]

MainWindow_create_new_chat(w, now) ==
    LET r == create_new_chat(w.store, uuid4(w.uuids + 1), now)
        w1 == Called([w EXCEPT !.clock = now, !.uuids = @ + 1],
                     "create_new_chat", <<>>, r)
    IN  [w1 EXCEPT !.message_history = <<>>,
                   !.worker_history = IF w.aliased THEN <<>> ELSE @,
                   !.chat_buttons = @ \cup {r.returned[1]}]

\* variant: the error handler stores the error text as the assistant's turn
MainWindow_handle_error_saving(w, error_message, now) ==
    LET r == save_message(w.store, "assistant", error_message, now)
    IN  [Called(w, "save_message", <<"assistant", error_message>>, r)
            EXCEPT !.send_enabled = TRUE]

MainWindow_handle_error(w, error_message, now) ==
    [w EXCEPT !.send_enabled = TRUE]

\* variant: the window keeps the history it had when a chat is loaded
MainWindow_load_chat_keeping_history(w, chat_id, now) ==
    LET r == load_chat(w.store, chat_id)
        w1 == Called(w, "load_chat", <<chat_id>>, r)
    IN  IF r.raised # NoneValue
        THEN MainWindow_handle_error(w1, r.raised, now)
        ELSE w1

MainWindow_load_chat(w, chat_id, now) ==
    LET r == load_chat(w.store, chat_id)
        w1 == Called(w, "load_chat", <<chat_id>>, r)
    IN  IF r.raised # NoneValue
        THEN MainWindow_handle_error(w1, r.raised, now)
        ELSE [w1 EXCEPT !.message_history = RoleContent(r.returned),
                        !.aliased = FALSE]

MainWindow_handle_response(w, response, now) ==
    LET r == save_message(w.store, "assistant", response, now)
        w1 == Called([w EXCEPT !.clock = IF r.raised = NoActiveChat THEN @
                                         ELSE now],
                     "save_message", <<"assistant", response>>, r)
    IN  IF r.raised # NoneValue THEN [w1 EXCEPT !.raised = r.raised]
        ELSE [HistoryAppend(w1, [role |-> "assistant", content |-> response])
                 EXCEPT !.send_enabled = TRUE]

\* variant: the message is saved without looking for an active chat
MainWindow_send_message_without_create(w, message, now0, now1, new_title, now2) ==
    LET w1 == w
        r == save_message(w1.store, "user", message, now1)
        w2 == Called([w1 EXCEPT !.clock = now1],
                     "save_message", <<"user", message>>, r)
    IN  IF r.raised # NoneValue THEN [w2 EXCEPT !.raised = r.raised]
        ELSE LET w3 == [HistoryAppend(w2, [role |-> "user",
                                           content |-> message])
                           EXCEPT !.send_enabled = FALSE]
                 a == w3.store.active_chat_id
                 m == w3.store.chats_metadata
                 is_new_chat == Len(m[MetaIndex(m, a)].messages) = 1
                 w4 == IF is_new_chat
                       THEN Called([w3 EXCEPT !.clock = now2],
                                   "update_chat_title", <<a, new_title>>,
                                   update_chat_title(w3.store, a, new_title,
                                                     now2))
                       ELSE w3
             IN  [w4 EXCEPT !.worker_history = w4.message_history,
                            !.aliased = TRUE]

\* send_message up to chat_worker.set_prompt; new_title is the title the
\* title request yields (or the fallback title when that request fails)
MainWindow_send_message(w, message, now0, now1, new_title, now2) ==
    LET w1 == IF w.store.active_chat_id = NoneValue
              THEN MainWindow_create_new_chat(w, now0) ELSE w
        r == save_message(w1.store, "user", message, now1)
        w2 == Called([w1 EXCEPT !.clock = now1],
                     "save_message", <<"user", message>>, r)
    IN  IF r.raised # NoneValue THEN [w2 EXCEPT !.raised = r.raised]
        ELSE LET w3 == [HistoryAppend(w2, [role |-> "user",
                                           content |-> message])
                           EXCEPT !.send_enabled = FALSE]
                 a == w3.store.active_chat_id
                 m == w3.store.chats_metadata
                 is_new_chat == Len(m[MetaIndex(m, a)].messages) = 1
                 w4 == IF is_new_chat
                       THEN Called([w3 EXCEPT !.clock = now2],
                                   "update_chat_title", <<a, new_title>>,
                                   update_chat_title(w3.store, a, new_title,
                                                     now2))
                       ELSE w3
             IN  [w4 EXCEPT !.worker_history = w4.message_history,
                            !.aliased = TRUE]

ChatHistoryPanel_rename_chat(w, chat_id, new_title, now) ==
    LET r == update_chat_title(w.store, chat_id, new_title, now)
    IN  Called([w EXCEPT !.clock = IF r.raised = NoneValue THEN now ELSE @],
               "update_chat_title", <<chat_id, new_title>>, r)

ChatHistoryPanel_delete_chat(w, chat_id, now) ==
    LET r == delete_chat(w.store, chat_id)
        w1 == Called(w, "delete_chat", <<chat_id>>, r)
    IN  IF r.raised # NoneValue THEN w1
        ELSE LET w2 == [w1 EXCEPT !.chat_buttons = @ \ {chat_id}]
             IN  IF w2.chat_buttons = {}
                 THEN MainWindow_create_new_chat(w2, now) ELSE w2

(***************************************************************************)
(* The application: the window's event handlers, running one at a time on  *)
(* the GUI thread, and the worker thread.  Of the retry loop only its      *)
(* first step (Start builds the message list) and its outcome are kept:    *)
(* get_valid_response returns an accepted reply or raises.  An exception   *)
(* that escapes a slot ends the application.                               *)
(***************************************************************************)
UserTexts == {Chars(2)}

GeneratedTitles == {"Topic"}

LoopReplies == {ReplyValid1}

LoopErrors == {ExhaustedError}

\* no handler of the window depends on a reading of the clock: while the
\* window is up the readings are taken to be equal (SpecStore lets them
\* differ)
WindowNows == {clock}

TheWindow ==
    [store |-> TheStore, op |-> op, appended |-> appended, clock |-> clock,
     uuids |-> uuids, message_history |-> mw_history,
     worker_history |-> message_history, aliased |-> aliased,
     chat_buttons |-> chat_buttons, send_enabled |-> send_enabled,
     raised |-> NoneValue]

\* the handler left the window w
Apply(w) ==
    /\ chats_metadata' = w.store.chats_metadata
    /\ chat_files' = w.store.chat_files
    /\ active_chat_id' = w.store.active_chat_id
    /\ op' = w.op
    /\ appended' = w.appended
    /\ clock' = w.clock
    /\ uuids' = w.uuids
    /\ mw_history' = w.message_history
    /\ message_history' = w.worker_history
    /\ aliased' = w.aliased
    /\ chat_buttons' = w.chat_buttons
    /\ send_enabled' = w.send_enabled
    /\ slot_error' = w.raised

\* the worker's variables a handler of the window leaves alone
loopVars == <<messages, attempt, content, outcome, calls, accepted, lastSent,
              prevSent, result, exc, err, signals>>

pureVars == <<vIn, vOut, eIn, eOut, xIn, xOut>>

\* the worker thread is running, or a signal of it is still to be handled
Outstanding ==
    pc \in {"start", "call", "returned", "raised"} \/ handled < Len(signals)

\* the storage roots the program leaves behind: none yet, or one chat
\* holding an earlier exchange
StoredExchange ==
    << [role |-> "user", content |-> Chars(2), timestamp |-> 0],
       [role |-> "assistant", content |-> Chars(3), timestamp |-> 0] >>

RootWithChat ==
    StoreOf(<< [id |-> uuid4(1), created_at |-> 0, updated_at |-> 0,
                title |-> "Topic", messages |-> StoredExchange] >>,
            Put(<<>>, uuid4(1), StoredExchange),
            NoneValue)

\* a storage root whose catalog lists a chat whose record file is gone,
\* as delete_chat leaves it when it is interrupted after unlink
RootWithStaleEntry ==
    StoreOf(RootWithChat.chats_metadata, <<>>, NoneValue)

Roots == {EmptyStore, RootWithChat}

\* ChatManager() on the storage root, then MainWindow.__init__
Opened(root) ==
    IF root.chats_metadata = <<>>
    THEN create_new_chat(root, uuid4(1), 0).store
    ELSE root

InitWindow(root) ==
    /\ chats_metadata = Opened(root).chats_metadata
    /\ chat_files = Opened(root).chat_files
    /\ active_chat_id = Opened(root).active_chat_id
    /\ clock = 0
    /\ uuids = 1
    /\ op = [name |-> "__init__", args |-> <<>>,
             returned |-> NoneValue, raised |-> NoneValue]
    /\ appended = [c \in MetaIds(Opened(root).chats_metadata) |->
                      LET m == Opened(root).chats_metadata
                          msgs == m[MetaIndex(m, c)].messages
                      IN  [i \in 1..Len(msgs) |->
                              <<msgs[i].role, msgs[i].content>>]]
    /\ mw_history = <<>>
    /\ aliased = FALSE
    /\ send_enabled = TRUE
    /\ chat_buttons = MetaIds(Opened(root).chats_metadata)
    /\ handled = 0
    /\ sends = 0
    /\ exchange = [chat |-> NoneValue, index |-> 0, history |-> <<>>]
    /\ slot_error = NoneValue
    /\ WorkerIdle
    /\ ValidateIdle
    /\ EnhanceIdle
    /\ ExtractIdle

InitApp == \E root \in Roots : InitWindow(root)

\* the user clicks Send with the text `message` in the input box
ClickSend(message) ==
    /\ slot_error = NoneValue
    /\ send_enabled
    /\ sends < MaxSends
    /\ active_chat_id = NoneValue => uuids < MaxChats
    /\ \E now0 \in WindowNows : \E now1 \in WindowNows :
       \E now2 \in WindowNows : \E new_title \in GeneratedTitles :
       \E w \in {MainWindow_send_message(TheWindow, message, now0, now1,
                                         new_title, now2)} :
           /\ Apply(w)
           /\ IF w.raised # NoneValue
              THEN UNCHANGED <<prompt, pc, sends, exchange>>
              ELSE /\ prompt' = message
                   /\ pc' = (IF pc \in {"idle", "done"} THEN "start" ELSE pc)
                   /\ sends' = sends + 1
                   /\ exchange' =
                          [chat |-> w.store.active_chat_id,
                           index |-> Len(w.store.chat_files[
                                             w.store.active_chat_id]),
                           history |-> SubSeq(w.message_history, 1,
                                              Len(w.message_history) - 1)]
    /\ UNCHANGED <<handled, loopVars, pureVars>>

\* the user clicks "+ New Chat"
ClickNewChat ==
    /\ slot_error = NoneValue
    /\ uuids < MaxChats
    /\ \E now \in WindowNows : Apply(MainWindow_create_new_chat(TheWindow, now))
    /\ UNCHANGED <<prompt, pc, handled, sends, exchange, loopVars, pureVars>>

\* the user clicks the button of a chat in the panel
ClickChat(chat_id) ==
    /\ slot_error = NoneValue
    /\ chat_id \in chat_buttons
    /\ \E now \in WindowNows :
           Apply(MainWindow_load_chat(TheWindow, chat_id, now))
    /\ UNCHANGED <<prompt, pc, handled, sends, exchange, loopVars, pureVars>>

\* the user renames a chat of the panel
ClickRename(chat_id, new_title) ==
    /\ slot_error = NoneValue
    /\ chat_id \in chat_buttons
    /\ \E now \in WindowNows :
           Apply(ChatHistoryPanel_rename_chat(TheWindow, chat_id, new_title,
                                              now))
    /\ UNCHANGED <<prompt, pc, handled, sends, exchange, loopVars, pureVars>>

\* the user deletes a chat of the panel and confirms
ClickDelete(chat_id) ==
    /\ slot_error = NoneValue
    /\ chat_id \in chat_buttons
    /\ chat_buttons = {chat_id} => uuids < MaxChats
    /\ \E now \in WindowNows :
           Apply(ChatHistoryPanel_delete_chat(TheWindow, chat_id, now))
    /\ UNCHANGED <<prompt, pc, handled, sends, exchange, loopVars, pureVars>>

\* get_valid_response returns the accepted reply r
LoopReturns(r) ==
    /\ pc = "call"
    /\ validate_response(r) = "True"
    /\ result' = r
    /\ pc' = "returned"
    /\ UNCHANGED <<prompt, message_history, messages, attempt, content,
                   outcome, calls, accepted, lastSent, prevSent, exc, err,
                   signals, vIn, vOut, restVars>>

\* get_valid_response raises e
LoopRaises(e) ==
    /\ pc = "call"
    /\ err' = e
    /\ pc' = "raised"
    /\ UNCHANGED <<prompt, message_history, messages, attempt, content,
                   outcome, calls, accepted, lastSent, prevSent, result, exc,
                   signals, vIn, vOut, restVars>>

\* variant: the reasoning, not the answer, is handed to handle_response
HandleFinished_with_thoughts ==
    /\ slot_error = NoneValue
    /\ handled < Len(signals)
    /\ signals[handled + 1].name = "finished"
    /\ \E now \in WindowNows :
           Apply(MainWindow_handle_response(TheWindow,
                                            signals[handled + 1].args[2],
                                            now))
    /\ handled' = handled + 1
    /\ UNCHANGED <<prompt, pc, sends, exchange, loopVars, pureVars>>

\* the GUI thread delivers the worker's finished signal to handle_response
HandleFinished ==
    /\ slot_error = NoneValue
    /\ handled < Len(signals)
    /\ signals[handled + 1].name = "finished"
    /\ \E now \in WindowNows :
           Apply(MainWindow_handle_response(TheWindow,
                                            signals[handled + 1].args[1],
                                            now))
    /\ handled' = handled + 1
    /\ UNCHANGED <<prompt, pc, sends, exchange, loopVars, pureVars>>

\* the GUI thread delivers the worker's error signal to handle_error
HandleError ==
    /\ slot_error = NoneValue
    /\ handled < Len(signals)
    /\ signals[handled + 1].name = "error"
    /\ \E now \in WindowNows :
           Apply(MainWindow_handle_error(TheWindow,
                                         signals[handled + 1].args, now))
    /\ handled' = handled + 1
    /\ UNCHANGED <<prompt, pc, sends, exchange, loopVars, pureVars>>

NextApp ==
    \/ \E message \in UserTexts : ClickSend(message)
    \/ ClickNewChat
    \/ \E chat_id \in ChatIds : ClickChat(chat_id)
    \/ \E chat_id \in ChatIds : \E new_title \in Titles :
           ClickRename(chat_id, new_title)
    \/ \E chat_id \in ChatIds : ClickDelete(chat_id)
    \/ Start
    \/ \E r \in LoopReplies : LoopReturns(r)
    \/ \E e \in LoopErrors : LoopRaises(e)
    \/ EmitFinished
    \/ EmitError
    \/ HandleFinished
    \/ HandleError

SpecApp == InitApp /\ [][NextApp]_vars

\* the application opened on a storage root with a stale catalog entry
InitAppStale == InitWindow(RootWithStaleEntry)

SpecAppStale == InitAppStale /\ [][NextApp]_vars

(***************************************************************************)
(* Properties of the retry loop (specification Spec / FairSpec).           *)
(***************************************************************************)
IsPrefix(a, b) == Len(a) <= Len(b) /\ SubSeq(b, 1, Len(a)) = a

NumSystem(msgs) == Cardinality({i \in 1..Len(msgs) : msgs[i].role = "system"})

\* number of rejected replies so far: each adds two entries to messages
Rejections ==
    (Len(messages) - Len(BuildMessages(message_history, prompt))) \div 2

NamesBudget(e) == \E i \in 1..Len(e) : e[i] = ToString(max_retries)

\* C1: the first reply the validator accepts, received on attempt k, is
\* returned unchanged after exactly k backend calls (k <= max_retries), and no
\* backend call follows an accepted reply.
C1_FirstAcceptedIsReturned ==
    /\ (calls > 0 /\ validate_response(content) = "True") =>
           /\ accepted = 1
           /\ result = content
           /\ calls = attempt + 1
           /\ calls <= max_retries
           /\ outcome = "valid"
           /\ pc \in {"returned", "done"}
    /\ accepted > 0 =>
           /\ validate_response(content) = "True"
           /\ pc # "call"

C1_Witness ==
    /\ pc = "returned"
    /\ calls = max_retries
    /\ Rejections = max_retries - 1
    /\ result = ReplyValid2
    /\ content = ReplyValid2

\* C2: when every one of the max_retries replies was rejected, the raised
\* error message names the retry budget.
C2_ExhaustedErrorNamesBudget ==
    (pc = "raised" /\ Rejections = max_retries) => NamesBudget(err)

\* C3: a transport error on an attempt before the last leaves the message
\* list unchanged, the loop continues and the next call sends the identical
\* list; a transport error on the last attempt raises an error that wraps it.
C3_TransportError ==
    [][ /\ (calls' = calls + 1 /\ outcome' = "transport") =>
              /\ messages' = messages
              /\ exc' \in TransportErrors
              /\ attempt < max_retries - 1 =>
                     /\ pc' = "call"
                     /\ attempt' = attempt + 1
                     /\ err' = <<>>
              /\ attempt = max_retries - 1 =>
                     /\ pc' = "raised"
                     /\ err' # <<>>
                     /\ err'[Len(err')] = exc'
        /\ (calls' = calls + 1 /\ outcome = "transport") =>
              lastSent' = lastSent ]_vars

C3_Witness ==
    /\ pc = "raised"
    /\ outcome = "transport"
    /\ calls = max_retries
    /\ prevSent = lastSent
    /\ err[Len(err)] \in TransportErrors

\* C4: a rejected reply of attempt index i appends exactly a system entry
\* with enhance_prompt(i) and then a user entry with the prompt; every call
\* sends a list that has the previously sent list as a prefix, with exactly
\* one more system entry when the previous reply was rejected.
C4_EscalationAppends ==
    [][ /\ (calls' = calls + 1 /\ outcome' = "invalid") =>
              messages' = messages
                  \o << [role |-> "system",
                         content |-> enhanced_prompts[
                             IF attempt < 4 THEN attempt + 1 ELSE 5]],
                        [role |-> "user", content |-> prompt] >>
        /\ (calls' = calls + 1 /\ calls >= 1) =>
              /\ IsPrefix(lastSent, lastSent')
              /\ outcome = "invalid" =>
                     /\ NumSystem(lastSent') = NumSystem(lastSent) + 1
                     /\ Len(lastSent') = Len(lastSent) + 2 ]_vars

C4_Witness ==
    /\ calls = max_retries
    /\ outcome = "invalid"
    /\ Rejections = max_retries
    /\ NumSystem(lastSent) = max_retries
    /\ NumSystem(prevSent) = max_retries - 1
    /\ Len(messages) = Len(lastSent) + 2

\* C5: the first call sends the system prompt, then the last min(10, n)
\* entries of the n-entry history in their order, then the user prompt; no
\* call ever sends a history entry older than the most recent 10.
C5_FirstMessageSequence ==
    LET n == Len(message_history)
        k == IF n < 10 THEN n ELSE 10
    IN  /\ calls = 1 =>
              /\ Len(lastSent) = k + 2
              /\ lastSent[1] = [role |-> "system", content |-> system_prompt]
              /\ \A j \in 1..k : lastSent[1 + j] = message_history[n - k + j]
              /\ lastSent[k + 2] = [role |-> "user", content |-> prompt]
        /\ \A i \in 1..(n - 10) : \A j \in 1..Len(lastSent) :
              lastSent[j] # message_history[i]

C5_Witness ==
    /\ calls = 1
    /\ Len(message_history) > 10
    /\ Len(lastSent) = 12
    /\ lastSent[2] = message_history[Len(message_history) - 9]

\* C6: a started loop ends after at most max_retries backend calls, one per
\* attempt, and emits exactly one signal, finished (answer, reasoning) or
\* error; error is emitted only when all max_retries attempts were used.
C6_OneNotification ==
    /\ [](/\ calls <= max_retries
          /\ pc = "call" => calls = attempt
          /\ pc \in {"returned", "raised", "done"} => calls = attempt + 1
          /\ Len(signals) <= 1
          /\ pc = "done" <=> Len(signals) = 1
          /\ Len(signals) = 1 =>
                \/ /\ signals[1].name = "finished"
                   /\ Len(signals[1].args) = 2
                   /\ accepted = 1
                \/ /\ signals[1].name = "error"
                   /\ signals[1].args = err
                   /\ accepted = 0
                   /\ calls = max_retries
                   /\ \/ outcome = "invalid" /\ err = ExhaustedError
                      \/ outcome \in {"transport", "valerror"}
                            /\ err[Len(err)] = exc)
    /\ <>(pc = "done")

C6_Witness ==
    /\ pc = "done"
    /\ Len(signals) = 1
    /\ signals[1].name = "error"
    /\ outcome = "transport"
    /\ calls = max_retries

(***************************************************************************)
(* Properties of validate_response (specification SpecValidate).           *)
(***************************************************************************)
Wrapped(c) == fromstring(<<"<root>">> \o c \o <<"</root>">>)

Parses(c) == ~IsNone(c) /\ Wrapped(c).ok

ThinkBlocks(c) ==
    {e \in Elements(Wrapped(c)) : e # 1 /\ Wrapped(c).doc[e] = "<think>"}

LastBlock(c) == Max(ThinkBlocks(c))

\* trimmed text of the last reasoning block
LastBlockText(c) == strip(ElemText(Wrapped(c), LastBlock(c)))

\* the last reasoning block is the final content under its parent: no later
\* sibling element and no text after its end tag
LastBlockIsTrailing(c) ==
    LET tree == Wrapped(c)
        b == LastBlock(c)
    IN  /\ \A e \in Elements(tree) : tree.parent[e] = tree.parent[b] => e <= b
        /\ strip(ElemTail(tree, b)) = <<>>

\* C7: an accepted reply has its last reasoning block as the final content
\* under its parent; a reply with content after that block is rejected.
C7_AcceptedBlockIsTrailing ==
    vOut = "True" => LastBlockIsTrailing(vIn)

\* C8: the four example replies are decided as stated, and every reply that
\* parses, has a reasoning block, whose last block has trimmed text of length
\* >= 10 and is trailing, is accepted.
C8_AcceptsWellFormed ==
    vOut # NoneValue =>
        /\ vIn = ExampleAnswer => vOut = "True"
        /\ vIn \in {ExampleShortTrailing, ReplyNoBlocks, ReplyTiny} =>
               vOut = "False"
        /\ ( /\ Parses(vIn)
             /\ ThinkBlocks(vIn) # {}
             /\ Len(LastBlockText(vIn)) >= 10
             /\ LastBlockIsTrailing(vIn) ) => vOut = "True"

\* C9: a reply whose last reasoning block has trimmed text shorter than 10
\* characters is rejected, whatever the earlier blocks contain.
C9_LastBlockLength ==
    ( /\ vOut # NoneValue
      /\ Parses(vIn)
      /\ ThinkBlocks(vIn) # {}
      /\ Len(LastBlockText(vIn)) < 10 ) => vOut = "False"

C9_Witness ==
    /\ vIn = Flatten(<<"TL", "TO", "X9", "TC">>)
    /\ Cardinality(ThinkBlocks(vIn)) = 2
    /\ Len(LastBlockText(vIn)) = 9
    /\ vOut = "False"

\* C10: empty or absent input, text that does not parse inside the envelope
\* element, and text without a reasoning block are rejected with False.
C10_RejectsWithoutError ==
    ( /\ vOut # NoneValue
      /\ \/ IsNone(vIn)
         \/ vIn = <<>>
         \/ ~Parses(vIn)
         \/ ThinkBlocks(vIn) = {} ) => vOut = "False"

C10_Witness ==
    /\ vIn = Flatten(<<"TL", "AO">>)
    /\ ~Parses(vIn)
    /\ vOut = "False"

(***************************************************************************)
(* Claims about enhance_prompt, checked under SpecEnhance.                 *)
(***************************************************************************)
\* the index the escalation list is read at for attempt index i
Clamped(i) ==
    IF i < 0 THEN 0
    ELSE IF i > Len(enhanced_prompts) - 1 THEN Len(enhanced_prompts) - 1
    ELSE i

\* C11: for every attempt index i, enhance_prompt(i) is the entry of the
\* fixed instruction list at index i clamped to [0, L-1]; every index
\* >= L-1 yields the last instruction; and evaluating it changes nothing
\* but its returned value.
C11_EnhanceClamped ==
    [][eOut' # eOut =>
          /\ eOut' = enhanced_prompts[Clamped(eIn) + 1]
          /\ (eIn >= Len(enhanced_prompts) - 1 =>
                  eOut' = "MANDATORY: Include substantial thoughts (>10 words) in <think></think> tags at the end")
          /\ UNCHANGED <<eIn, workerVars, validateVars, extractVars,
                         storeVars, windowVars>>]_vars

\* an attempt index beyond the list has been given its instruction
C11_Witness ==
    /\ eIn > Len(enhanced_prompts)
    /\ eOut = enhanced_prompts[Len(enhanced_prompts)]

(***************************************************************************)
(* Claims about extract_content_and_thoughts, checked under SpecExtract.   *)
(***************************************************************************)
\* t is s without its leading and trailing whitespace
IsTrimOf(t, s) ==
    /\ t = <<>> \/ (~IsSpace(t[1]) /\ ~IsSpace(t[Len(t)]))
    /\ \E i \in 1..(Len(s) + 1) : \E j \in 0..Len(s) :
           /\ t = SubSeq(s, i, j)
           /\ \A k \in 1..Len(s) : (k < i \/ k > j) => IsSpace(s[k])

\* positions of the opening and of the closing markers in s
Opens(s) == {i \in 1..Len(s) : s[i] = "<think>"}

Closes(s) == {i \in 1..Len(s) : s[i] = "</think>"}

\* C12: a text without an opening marker is returned trimmed with an empty
\* reasoning; "Hello <think>because</think> world" gives ("Hello world",
\* "because") and "plain text" gives ("plain text", "").
C12_NoMarkerAndExamples ==
    xOut # NoneValue =>
        /\ (Opens(xIn) = {} => IsTrimOf(xOut[1], xIn) /\ xOut[2] = <<>>)
        /\ (xIn = ExampleHello =>
                xOut = <<Chars(5) \o <<" ">> \o Chars(5), Chars(7)>>)
        /\ (xIn = ExamplePlain =>
                xOut = <<Chars(5) \o <<" ">> \o Chars(4), <<>> >>)

\* a text without opening marker that had whitespace to trim has been split
C12_Witness ==
    /\ xOut # NoneValue
    /\ Opens(xIn) = {}
    /\ Len(xOut[1]) > 0
    /\ Len(xOut[1]) < Len(xIn)
    /\ xOut[2] = <<>>

\* s without its leading and trailing whitespace
Trim(s) ==
    CHOOSE t \in {SubSeq(s, i, j) : i \in 1..(Len(s) + 1), j \in 0..Len(s)} :
        IsTrimOf(t, s)

\* the first opening marker of s and the first closing marker after it
FirstOpen(s) == Min(Opens(s))

ItsClose(s) == Min({c \in Closes(s) : c > FirstOpen(s)})

HasBlock(s) == Opens(s) # {} /\ {c \in Closes(s) : c > FirstOpen(s)} # {}

\* C13: for a text with an opening marker and its closing marker, the
\* reasoning is the trimmed text between the two markers, and the answer is
\* the trimmed text before the opening marker joined by one space with the
\* trimmed text of everything after the closing marker, up to the end of
\* the text.
C13_BlockAndWholeRest ==
    (xOut # NoneValue /\ HasBlock(xIn)) =>
        /\ xOut[2] = Trim(SubSeq(xIn, FirstOpen(xIn) + 1, ItsClose(xIn) - 1))
        /\ xOut[1] = Trim(Trim(SubSeq(xIn, 1, FirstOpen(xIn) - 1))
                             \o <<" ">>
                             \o Trim(SubSeq(xIn, ItsClose(xIn) + 1, Len(xIn))))

\* C14: extract_content_and_thoughts returns a pair of texts for every
\* text, and when the text has an opening marker but no closing marker the
\* reasoning it returns is empty.
C14_TotalAndEmptyReasoning ==
    xOut # NoneValue =>
        /\ Len(xOut) = 2
        /\ \A k \in 1..2 : \A i \in 1..Len(xOut[k]) :
               IsChar(xOut[k][i]) \/ IsOpen(xOut[k][i]) \/ IsClose(xOut[k][i])
        /\ (Opens(xIn) # {} /\ Closes(xIn) = {} => xOut[2] = <<>>)

(***************************************************************************)
(* Claims about ChatManager, checked under SpecStore.                      *)
(***************************************************************************)
\* the (role, content) pairs of a message list
Pairs(msgs) == [i \in 1..Len(msgs) |-> <<msgs[i].role, msgs[i].content>>]

\* the last call was `name` and it returned
Completed(name) == op.name = name /\ op.raised = NoneValue

\* C15: load_chat(id) returns exactly the (role, content) pairs saved to
\* that chat so far, in the order they were saved; after create_new_chat
\* and save_message("user", "hi") it returns that single message.
C15_RoundTrip ==
    Completed("load_chat") =>
        Pairs(op.returned) = appended[op.args[1]]

\* two messages have been saved to a chat and load_chat returned them
C15_Witness ==
    /\ Completed("load_chat")
    /\ Pairs(op.returned) = << <<"user", "hi">>, <<"assistant", "hi">> >>

\* C16: after every ChatManager call that returns, the catalog and the
\* record files name the same chat ids, and every catalog entry's message
\* list equals the message list of its record.
C16_CatalogRecordAgreement ==
    op.raised = NoneValue =>
        /\ MetaIds(chats_metadata) = DOMAIN chat_files
        /\ \A i \in 1..Len(chats_metadata) :
               chats_metadata[i].messages = chat_files[chats_metadata[i].id]

\* a message has been saved while two chats exist
C16_Witness ==
    /\ Completed("save_message")
    /\ Len(chats_metadata) = 2
    /\ Len(chat_files[active_chat_id]) = 2

\* C17: delete_chat of a chat that is not the active one leaves
\* active_chat_id unchanged, delete_chat of the active chat leaves it
\* None, and no delete_chat makes another chat active.
C17_DeleteAndActive ==
    [][op'.name = "delete_chat" /\ chats_metadata' # chats_metadata =>
          /\ (active_chat_id # op'.args[1] =>
                  active_chat_id' = active_chat_id)
          /\ (active_chat_id = op'.args[1] => active_chat_id' = NoneValue)
          /\ active_chat_id' \in {active_chat_id, NoneValue}]_vars

\* a chat that was not the active one has been deleted
C17_Witness ==
    /\ Completed("delete_chat")
    /\ active_chat_id # NoneValue
    /\ active_chat_id # op.args[1]

\* C20: create_new_chat returns an id that had no catalog entry; the new
\* record and the new catalog entry have no messages, created_at equals
\* updated_at, the title is "Chat N" with N one more than the number of
\* catalog entries before the call, and the new chat is the active one.
C20_Create ==
    [][op'.name = "create_new_chat" /\ uuids' # uuids =>
          LET chat_id == op'.returned[1]
              entry == chats_metadata'[Len(chats_metadata')]
          IN  /\ op'.raised = NoneValue
              /\ chat_id \notin MetaIds(chats_metadata)
              /\ chat_id \notin DOMAIN chat_files
              /\ Len(chats_metadata') = Len(chats_metadata) + 1
              /\ entry.id = chat_id
              /\ entry.messages = <<>>
              /\ chat_files'[chat_id] = <<>>
              /\ entry.created_at = entry.updated_at
              /\ entry.title = "Chat " \o ToString(Len(chats_metadata) + 1)
              /\ op'.returned[2] = entry.title
              /\ active_chat_id' = chat_id]_vars

\* a chat has been created after the only other chat was deleted
C20_Witness ==
    /\ Completed("create_new_chat")
    /\ op.returned = <<uuid4(2), "Chat 1">>
    /\ active_chat_id = uuid4(2)
    /\ Len(chats_metadata) = 1

\* C29: for a reply validate_response accepts, the reasoning returned by
\* extract_content_and_thoughts is the trimmed text of the reply's last
\* reasoning block, so it has at least 10 characters, and the answer holds
\* no opening marker.
C29_ValidatorSplitterAgree ==
    (vOut = "True" /\ xOut # NoneValue) =>
        /\ xOut[2] = LastBlockText(vIn)
        /\ Len(xOut[2]) >= MinThoughtLen
        /\ \A i \in 1..Len(xOut[1]) : xOut[1][i] # "<think>"

\* C30: validate_response returns True or False for every reply, whatever
\* the nesting of its reasoning blocks; it never raises.
C30_ValidateTotal == vOut \in {NoneValue, "True", "False"}

\* the catalog entry of chat_id in the catalog m
EntryOf(m, chat_id) == m[MetaIndex(m, chat_id)]

\* the record files g and the catalog n differ from f and m at most in
\* the chat chat_id
OthersUnchanged(f, m, g, n, chat_id) ==
    /\ \A c \in (DOMAIN f \cup DOMAIN g) \ {chat_id} :
           c \in DOMAIN f /\ c \in DOMAIN g /\ g[c] = f[c]
    /\ \A c \in (MetaIds(m) \cup MetaIds(n)) \ {chat_id} :
           c \in MetaIds(m) /\ c \in MetaIds(n)
               /\ EntryOf(n, c) = EntryOf(m, c)

C22_Load ==
    [][op'.name = "load_chat" =>
          LET chat_id == op'.args[1]
          IN  /\ chat_files' = chat_files
              /\ chats_metadata' = chats_metadata
              /\ IF chat_id \in DOMAIN chat_files
                 THEN /\ op'.raised = NoneValue
                      /\ op'.returned = chat_files[chat_id]
                      /\ active_chat_id' = chat_id
                 ELSE /\ op'.raised = NotFound
                      /\ active_chat_id' = active_chat_id]_vars

\* load_chat of an id without record has failed while another chat, with
\* messages, was active
C22_Witness ==
    /\ op.name = "load_chat"
    /\ op.raised = NotFound
    /\ active_chat_id # NoneValue
    /\ active_chat_id # op.args[1]
    /\ Len(chat_files[active_chat_id]) > 0

\* C23: delete_chat of an id without catalog entry raises "not found" and
\* changes nothing; delete_chat of an id with a catalog entry returns,
\* whether the record file exists or not, and afterwards the id has
\* neither record nor catalog entry while the records and catalog entries
\* of all other chats are as before.
C23_Delete ==
    [][op'.name = "delete_chat" =>
          LET chat_id == op'.args[1]
          IN  IF chat_id \notin MetaIds(chats_metadata)
              THEN /\ op'.raised = NotFound
                   /\ chat_files' = chat_files
                   /\ chats_metadata' = chats_metadata
                   /\ active_chat_id' = active_chat_id
              ELSE /\ op'.raised = NoneValue
                   /\ chat_id \notin DOMAIN chat_files'
                   /\ chat_id \notin MetaIds(chats_metadata')
                   /\ OthersUnchanged(chat_files, chats_metadata,
                                      chat_files', chats_metadata',
                                      chat_id)]_vars

\* the chat whose record file was missing has been deleted while another
\* chat holding a message remains
C23_Witness ==
    /\ op.name = "delete_chat"
    /\ op.args = <<uuid4(1)>>
    /\ op.raised = NoneValue
    /\ chats_metadata # <<>>
    /\ \A i \in 1..Len(chats_metadata) :
           /\ chats_metadata[i].id \in DOMAIN chat_files
           /\ Len(chat_files[chats_metadata[i].id]) > 0

\* C24: update_chat_title of an id without catalog entry raises "not
\* found" and changes nothing; otherwise it returns, the entry's title is
\* the new title and its updated_at the clock's reading, and the entry's
\* messages and created_at, every record, the active chat, the order of
\* the catalog and every other entry are as before.
C24_Rename ==
    [][op'.name = "update_chat_title" =>
          LET chat_id == op'.args[1]
          IN  /\ chat_files' = chat_files
              /\ active_chat_id' = active_chat_id
              /\ IF chat_id \notin MetaIds(chats_metadata)
                 THEN /\ op'.raised = NotFound
                      /\ chats_metadata' = chats_metadata
                 ELSE LET old == EntryOf(chats_metadata, chat_id)
                          new == EntryOf(chats_metadata', chat_id)
                      IN  /\ op'.raised = NoneValue
                          /\ new.title = op'.args[2]
                          /\ new.updated_at = clock'
                          /\ new.updated_at >= old.updated_at
                          /\ new.messages = old.messages
                          /\ new.created_at = old.created_at
                          /\ new.id = old.id
                          /\ Len(chats_metadata') = Len(chats_metadata)
                          /\ \A i \in 1..Len(chats_metadata) :
                                 chats_metadata[i].id # chat_id =>
                                     chats_metadata'[i] = chats_metadata[i]
                          /\ MetaIndex(chats_metadata', chat_id) =
                                 MetaIndex(chats_metadata, chat_id)]_vars

\* a chat holding a message, not the active one, has been renamed later
\* than it was created
C24_Witness ==
    /\ op.name = "update_chat_title"
    /\ op.raised = NoneValue
    /\ active_chat_id # op.args[1]
    /\ active_chat_id # NoneValue
    /\ LET e == EntryOf(chats_metadata, op.args[1])
       IN  /\ e.title = op.args[2]
           /\ e.updated_at > e.created_at
           /\ Len(e.messages) > 0
           /\ chat_files[op.args[1]] = e.messages

\* the catalog entry e is as create_new_chat made it
AsCreated(e, n) ==
    /\ e.title = "Chat " \o ToString(n)
    /\ e.updated_at = e.created_at
    /\ e.messages = <<>>

\* get_chat_list returns the triple of every catalog entry, in the order
\* of the catalog, and changes nothing
ListsTheCatalog ==
    op'.name = "get_chat_list" =>
        /\ op'.raised = NoneValue
        /\ chat_files' = chat_files
        /\ chats_metadata' = chats_metadata
        /\ active_chat_id' = active_chat_id
        /\ Len(op'.returned) = Len(chats_metadata)
        /\ \A i \in 1..Len(chats_metadata) :
               op'.returned[i] = <<chats_metadata[i].id,
                                  chats_metadata[i].title,
                                  chats_metadata[i].updated_at>>

\* C25: get_chat_list returns one (id, title, updated_at) triple per
\* catalog entry, in the order of the catalog, and changes nothing; when
\* the catalog holds two chats as create_new_chat made them, the list
\* pairs each with its assigned title and the two updated_at differ.
\* (Every get_chat_list step that is not a repetition of the call before
\* it changes op.name.)
C25_List ==
    [][/\ ListsTheCatalog
       /\ (op'.name = "get_chat_list" /\ Len(chats_metadata) = 2
              /\ AsCreated(chats_metadata[1], 1)
              /\ AsCreated(chats_metadata[2], 2)) =>
                  /\ op'.returned[1][2] = "Chat 1"
                  /\ op'.returned[2][2] = "Chat 2"
                  /\ op'.returned[1][3] # op'.returned[2][3]
      ]_<<op.name, chats_metadata, chat_files, active_chat_id>>

FailureStep ==
    \/ pc = "call" /\ pc' = "raised"
    \/ pc = "raised" /\ pc' = "done"
    \/ /\ handled' = handled + 1
       /\ signals[handled + 1].name = "error"

\* the user message of the exchange is in the record of its chat
UserMessagePersisted(files) ==
    /\ exchange.chat \in DOMAIN files
    /\ exchange.index \in 1..Len(files[exchange.chat])
    /\ files[exchange.chat][exchange.index].role = "user"
    /\ files[exchange.chat][exchange.index].content = prompt

\* C18: the failure of a retry loop, its error signal and handle_error
\* append nothing to any record or catalog entry, and the user message of
\* the exchange, saved before the worker was started, is still in the
\* record of its chat afterwards (as long as that chat exists).
C18_FailedExchange ==
    [][FailureStep =>
          /\ chat_files' = chat_files
          /\ chats_metadata' = chats_metadata
          /\ exchange.chat \in DOMAIN chat_files =>
                 UserMessagePersisted(chat_files')]_vars

\* handle_error has handled the failure of an exchange whose user message
\* is the last message of its record
C18_Witness ==
    /\ handled > 0
    /\ signals[handled].name = "error"
    /\ UserMessagePersisted(chat_files)
    /\ Len(chat_files[exchange.chat]) = exchange.index
    /\ send_enabled

\* C19: while the worker thread runs, or a signal of it is still to be
\* handled, the Send button is disabled, whatever other events the window
\* has handled in the meantime.
C19_SendingDisabledWhileOutstanding == Outstanding => ~send_enabled

\* C26: when handle_response handles the finished signal of an exchange,
\* the only record and the only catalog entry that grow are those of the
\* chat to which the user message of that exchange was saved.
C26_ReplyToSameSession ==
    [][(handled' = handled + 1
           /\ signals[handled + 1].name = "finished") =>
          /\ \A c \in DOMAIN chat_files' :
                 (c \notin DOMAIN chat_files
                      \/ chat_files'[c] # chat_files[c]) => c = exchange.chat
          /\ \A c \in MetaIds(chats_metadata') :
                 (c \notin MetaIds(chats_metadata)
                      \/ EntryOf(chats_metadata', c).messages #
                             EntryOf(chats_metadata, c).messages) =>
                     c = exchange.chat]_vars

\* C27: whenever the window has handled the finished or the error signal
\* of a retry loop, the Send button is enabled, whatever chats were
\* created, loaded or deleted while the loop was running.
C27_SendingReenabled == [][handled' = handled + 1 => send_enabled']_vars

\* handle_response handles the finished signal of the exchange while the
\* chat of the exchange is active and its user message is the last
\* message of its record
HandlesUndisturbed ==
    /\ handled' = handled + 1
    /\ signals[handled + 1].name = "finished"
    /\ active_chat_id = exchange.chat
    /\ exchange.chat \in DOMAIN chat_files
    /\ Len(chat_files[exchange.chat]) = exchange.index

\* C28: the user message is in the record when the worker builds its first
\* request; when the finished signal is handled with the chat of the
\* exchange still active and nothing appended since, the signal carries
\* the pair extract_content_and_thoughts made of the accepted reply, and
\* the record and the catalog entry of the chat become the old messages
\* (ending with the user message) followed by one assistant message whose
\* content is the answer; the reasoning is stored nowhere and no other
\* chat changes.
C28_SuccessfulExchange ==
    [][/\ (pc = "start" /\ pc' = "call"
               /\ exchange.chat \in DOMAIN chat_files) =>
              UserMessagePersisted(chat_files)
       /\ HandlesUndisturbed =>
              LET c == exchange.chat
                  n == exchange.index
                  pair == extract_content_and_thoughts(result)
              IN  /\ signals[handled + 1].args = pair
                  /\ UserMessagePersisted(chat_files)
                  /\ Len(chat_files'[c]) = n + 1
                  /\ SubSeq(chat_files'[c], 1, n) = chat_files[c]
                  /\ DOMAIN chat_files'[c][n + 1] =
                         {"role", "content", "timestamp"}
                  /\ chat_files'[c][n + 1].role = "assistant"
                  /\ chat_files'[c][n + 1].content = pair[1]
                  /\ pair[2] # pair[1]
                  /\ EntryOf(chats_metadata', c).messages = chat_files'[c]
                  /\ OthersUnchanged(chat_files, chats_metadata,
                                     chat_files', chats_metadata', c)
                  /\ active_chat_id' = c]_vars

\* an exchange has been completed in a chat that held an earlier exchange
C28_Witness ==
    /\ handled = 1
    /\ signals[1].name = "finished"
    /\ exchange.chat = active_chat_id
    /\ exchange.chat \in DOMAIN chat_files
    /\ exchange.index = 3
    /\ Len(chat_files[exchange.chat]) = 4
    /\ chat_files[exchange.chat][3].role = "user"
    /\ chat_files[exchange.chat][4].role = "assistant"
    /\ chat_files[exchange.chat][4].content = signals[1].args[1]
    /\ send_enabled

\* C31: the message list the worker builds for the first request of an
\* exchange is the system prompt, the last entries of the history the
\* window held before the message was sent, and the user's message, once,
\* as the final entry.
C31_PromptOnce ==
    [][(pc = "start" /\ pc' = "call") =>
          messages' = <<[role |-> "system", content |-> system_prompt]>>
                          \o Truncated(exchange.history)
                          \o <<[role |-> "user", content |-> prompt]>>]_vars

C35_HistoryAgreesWithStore ==
    (active_chat_id # NoneValue /\ active_chat_id \in DOMAIN chat_files) =>
        mw_history = RoleContent(chat_files[active_chat_id])

\* the reply of an exchange has been handled after the user went to another
\* chat: it is the last message of that chat's record and of the history
C35_Witness ==
    /\ handled = 1
    /\ slot_error = NoneValue
    /\ active_chat_id # NoneValue
    /\ active_chat_id # exchange.chat
    /\ Len(mw_history) > 0
    /\ mw_history[Len(mw_history)].role = "assistant"
    /\ Len(chat_files[active_chat_id]) = Len(mw_history)

\* C36: the message list the retry loop builds is built from the history
\* the window held when the message was submitted (the history before the
\* message, and the message), whatever the window did to its chats between
\* the submission and the start of the loop.
C36_HistoryAsSubmitted ==
    [][(pc = "start" /\ pc' = "call") =>
          messages' = BuildMessages(
                          Append(exchange.history,
                                 [role |-> "user", content |-> prompt]),
                          prompt)]_vars

====
